---- MODULE Spec2Model ----
(***************************************************************************)
(* Status store of the TOD4 workflow dashboard: the per-step and           *)
(* per-sub-step status maps kept in the Streamlit session state, their      *)
(* JSON persistence in checklist_status.json, and the views that edit them. *)
(* The process model builder that reads the table (load_data, parse_step,  *)
(* process_steps, calculate_total_days) has behaviours of its own:         *)
(* SpecTable and SpecDays.                                                 *)
(*                                                                         *)
(* A Python dict is modelled as the sequence of its items in insertion      *)
(* order (distinct keys).  A key is either an integer (the step numbers of  *)
(* the model) or a string (every key read back from JSON, and the composite *)
(* sub-step keys).  A JSON object text is the sequence of its members, in    *)
(* which a name may occur twice.                                            *)
(***************************************************************************)
EXTENDS Integers, Sequences, FiniteSets, TLC

\* ------------------------------------------------------------------ bounds
MaxStep == 2        \* step numbers of the model are 1..k, k <= MaxStep
MaxEvents == 2      \* widget edits, disk changes and restarts in one behaviour
MaxRows == 3        \* rows of the table
MaxSubsteps == 3    \* sub-steps of a step whose durations are summed
MaxUploads == 3     \* files uploaded in one behaviour

\* ------------------------------------------------------------- text values
Digit == <<"0", "1", "2", "3", "4", "5", "6", "7", "8", "9">>

RECURSIVE Str(_)
\* str(n) of a non-negative integer, as an f-string or json.dump renders it.
Str(n) == IF n < 10 THEN Digit[n + 1] ELSE Str(n \div 10) \o Digit[(n % 10) + 1]

\* options=['not_started', 'in_progress', 'completed'] of every status selectbox
STATUS_OPTIONS == <<"not_started", "in_progress", "completed">>

Range(s) == {s[i] : i \in DOMAIN s}

Statuses == Range(STATUS_OPTIONS)

\* texts a notes text_area can return
Notes == {"", "memo"}

\* {'status': 'not_started', 'notes': ''}
DefaultEntry == [status |-> "not_started", notes |-> ""]

\* ------------------------------------------------------------------- keys
IntKey(n) == [tag |-> "int", n |-> n, s |-> ""]
StrKey(s) == [tag |-> "str", n |-> 0, s |-> s]

\* the member name json.dump writes for a dict key: int keys become str(n)
JsonKey(k) == IF k.tag = "int" THEN Str(k.n) ELSE k.s

\* substep_key = f"{step_num}_{substep['code']}"
SubstepKey(step_num, code) == StrKey(Str(step_num) \o "_" \o code)

\* ------------------------------------------------------- dict operations
Has(d, k) == \E i \in DOMAIN d : d[i].k = k

Get(d, k) == d[CHOOSE i \in DOMAIN d : d[i].k = k].v

\* an assignment that keeps the value a key already has
PutFirstWins(d, k, v) == IF Has(d, k) THEN d ELSE Append(d, [k |-> k, v |-> v])

\* d[k] = v : replaces in place, or appends a new item at the end
Put(d, k, v) ==
    IF Has(d, k)
    THEN [i \in DOMAIN d |-> IF d[i].k = k THEN [k |-> k, v |-> v] ELSE d[i]]
    ELSE Append(d, [k |-> k, v |-> v])

Keys(d) == {d[i].k : i \in DOMAIN d}

\* ---------------------------------------------------------- the status file
\* kinds: "absent"    no file,
\*        "json"      a JSON object with members step_status, substep_status,
\*        "corrupt"   bytes json.load cannot decode (also a truncated write),
\*        "notobject" well-formed JSON whose top level is no object,
\*        "unreadable" a file open() cannot read
NoFile == [kind |-> "absent", step_status |-> <<>>, substep_status |-> <<>>]
CorruptFile == [kind |-> "corrupt", step_status |-> <<>>, substep_status |-> <<>>]
NotObjectFile == [kind |-> "notobject", step_status |-> <<>>, substep_status |-> <<>>]
UnreadableFile == [kind |-> "unreadable", step_status |-> <<>>, substep_status |-> <<>>]

\* json.dump of one dict: its items in order, each key rendered as a string
DumpMap(d) == [i \in DOMAIN d |-> [k |-> JsonKey(d[i].k), v |-> d[i].v]]

RECURSIVE ParseMembers(_, _)
\* json.load of one object: members in order into a dict with string keys;
\* a repeated name keeps its first position and takes the last value
ParseMembers(ms, acc) ==
    IF ms = <<>> THEN acc
    ELSE ParseMembers(Tail(ms), Put(acc, StrKey(Head(ms).k), Head(ms).v))

ParseMap(ms) == ParseMembers(ms, <<>>)

JsonFile(step, sub) ==
    [kind |-> "json", step_status |-> DumpMap(step), substep_status |-> DumpMap(sub)]

\* ------------------------------------------------------------- the model
\* code of the j-th sub-step row of step n, e.g. "B1.2"
SubCode(n, j) == "B" \o Str(n) \o "." \o Str(j)

\* the dict process_steps returns, reduced to what the status store reads:
\* step number -> [substeps |-> list of [code |-> ...]]
StepData(n, m) == [substeps |-> [j \in 1..m |-> [code |-> SubCode(n, j)]]]

\* tables of 0..MaxStep steps; an odd step has one sub-step, an even step none
ModelChoices ==
    {[n \in 1..k |-> StepData(n, n % 2)] : k \in 0..MaxStep}

\* ------------------------------------------------------------------ state
VARIABLES
    steps,              \* the model built from the table (fixed in a behaviour)
    session_keys,       \* the keys present in st.session_state
    step_status,        \* st.session_state['step_status']
    substep_status,     \* st.session_state['substep_status']
    file,               \* checklist_status.json
    disk,               \* what a write of the status file meets: see Outcomes
    last_op,            \* the handler that ran last
    edited,             \* the kind of widget edit that triggered it
    edit_kept,          \* the edited entry holds the edited value after it
    did_load,           \* load_checklist_status ran in the last handler
    from_file,          \* what the last load_checklist_status returned
    warned,             \* load_checklist_status called st.warning in the last handler
    save_result,        \* return value of the last save in the last handler
    save_failed,        \* some save of the last handler returned False
    errors_shown,       \* st.error calls of save_checklist_status in the last handler
    raised,             \* the last handler ended by an uncaught exception
    events              \* widget edits, disk changes and restarts so far

vars == <<steps, session_keys, step_status, substep_status, file, disk, last_op, edited,
          edit_kept, did_load,
          from_file, warned, save_result, save_failed, errors_shown, raised, events>>

\* outcomes of a write of the status file: it succeeds, open(..., 'w') raises
\* (read-only file or directory), or the write raises after the file was
\* truncated (disk full, I/O error)
Outcomes == {"ok", "open_failed", "write_failed"}

\* The state a handler works on: the session, the file, and what it reports.
World ==
    [keys |-> session_keys, step_status |-> step_status, substep_status |-> substep_status,
     file |-> file, disk |-> disk, did_load |-> FALSE, from_file |-> from_file,
     warned |-> FALSE,
     save_result |-> "none", save_failed |-> FALSE, errors_shown |-> 0, raised |-> FALSE]

\* ================================================================ the table
\* The process model builder of app.py: load_data, parse_step, process_steps,
\* extract_days and calculate_total_days.  A text is the sequence of its
\* characters; a cell of the data frame is a text or NaN (an empty CSV field).
NaN == [na |-> TRUE, s |-> <<>>]
Text(s) == [na |-> FALSE, s |-> s]

\* Python None, and an int where None is possible
None == <<>>
Some(n) == <<n>>

IsDigit(c) == c \in Range(Digit)

\* the characters str.strip(), str.split() and \s take for whitespace
IsSpace(c) == c \in {" ", "\n"}

\* int(c) of one digit
DigitValue(c) == CHOOSE i \in 0..9 : Digit[i + 1] = c

RECURSIVE ToInt(_)
\* int(s) of a text of digits
ToInt(s) == IF s = <<>> THEN 0 ELSE ToInt(SubSeq(s, 1, Len(s) - 1)) * 10 + DigitValue(s[Len(s)])

RECURSIVE Chars(_)
\* str(n) of a non-negative int, as a text
Chars(n) == IF n < 10 THEN <<Digit[n + 1]>> ELSE Append(Chars(n \div 10), Digit[(n % 10) + 1])

\* c.upper() and c.lower() of one character, for the letters the tables use
UpperChar(c) ==
    CASE c = "b" -> "B" [] c = "ư" -> "Ư" [] c = "ớ" -> "Ớ" [] c = "c" -> "C" [] OTHER -> c

LowerChar(c) ==
    CASE c = "N" -> "n" [] c = "G" -> "g" [] c = "À" -> "à" [] c = "Y" -> "y" [] OTHER -> c

Upper(s) == [i \in DOMAIN s |-> UpperChar(s[i])]

Lower(s) == [i \in DOMAIN s |-> LowerChar(s[i])]

RECURSIVE LStrip(_)
LStrip(s) == IF s # <<>> /\ IsSpace(Head(s)) THEN LStrip(Tail(s)) ELSE s

RECURSIVE RStrip(_)
RStrip(s) == IF s # <<>> /\ IsSpace(s[Len(s)]) THEN RStrip(SubSeq(s, 1, Len(s) - 1)) ELSE s

\* s.strip()
Strip(s) == RStrip(LStrip(s))

RECURSIVE Collapse(_)
\* ' '.join(s.split()) of a stripped text: every whitespace run becomes one space
Collapse(s) ==
    IF s = <<>> THEN <<>>
    ELSE IF IsSpace(Head(s)) THEN <<" ">> \o Collapse(LStrip(s))
    ELSE <<Head(s)>> \o Collapse(Tail(s))

\* the literal pat occurs in s at position i
MatchAt(s, i, pat) ==
    /\ i >= 1
    /\ i + Len(pat) - 1 <= Len(s)
    /\ \A j \in 1..Len(pat) : s[i + j - 1] = pat[j]

RECURSIVE DigitRunEnd(_, _)
\* the last position of the run of digits that starts at i (i - 1: no digit at i)
DigitRunEnd(s, i) == IF i <= Len(s) /\ IsDigit(s[i]) THEN DigitRunEnd(s, i + 1) ELSE i - 1

RECURSIVE SpaceRunEnd(_, _)
\* the last position of the run of whitespace that starts at i (i - 1: none)
SpaceRunEnd(s, i) == IF i <= Len(s) /\ IsSpace(s[i]) THEN SpaceRunEnd(s, i + 1) ELSE i - 1

Min(S) == CHOOSE x \in S : \A y \in S : x <= y

Max(S) == CHOOSE x \in S : \A y \in S : x >= y

\* 'BƯỚC'
MARKER == <<"B", "Ư", "Ớ", "C">>

\* the start positions at which BƯỚC\s*(\d+) matches in s
MarkerMatches(s) ==
    {i \in 1..Len(s) : /\ MatchAt(s, i, MARKER)
                       /\ DigitRunEnd(s, SpaceRunEnd(s, i + Len(MARKER)) + 1) > SpaceRunEnd(s, i + Len(MARKER))}

\* group 1 of re.search(r'BƯỚC\s*(\d+)', s): the leftmost match
MarkerNumber(s) ==
    LET i == Min(MarkerMatches(s))
        d == SpaceRunEnd(s, i + Len(MARKER)) + 1
    IN  SubSeq(s, d, DigitRunEnd(s, d))

\* one optional group (?:\.(\d+))? tried at position i: where the match ends,
\* and the text of the group (<<>>: the group took no part)
DotGroup(s, i) ==
    IF i <= Len(s) /\ s[i] = "." /\ DigitRunEnd(s, i + 1) > i
    THEN [end |-> DigitRunEnd(s, i + 1), text |-> SubSeq(s, i + 1, DigitRunEnd(s, i + 1))]
    ELSE [end |-> i - 1, text |-> <<>>]

NotParsed == [StepNum |-> None, Level |-> "None", SubStep |-> None]

\* parse_step(stt)
parse_step(stt) ==
    IF stt.na THEN NotParsed
    ELSE LET stt_str == Upper(Strip(stt.s))
             e1 == DigitRunEnd(stt_str, 2)
             g2 == DotGroup(stt_str, e1 + 1)
             g3 == DotGroup(stt_str, g2.end + 1)
             sub1 == IF g2.text # <<>> THEN Some(ToInt(g2.text)) ELSE None
             sub2 == IF g3.text # <<>> THEN Some(ToInt(g3.text)) ELSE None
             depth == Len(sub1) + Len(sub2)
         IN  IF \E i \in 1..Len(stt_str) : MatchAt(stt_str, i, MARKER)
             THEN IF MarkerMatches(stt_str) # {}
                  THEN [StepNum |-> Some(ToInt(MarkerNumber(stt_str))), Level |-> "step",
                        SubStep |-> None]
                  ELSE NotParsed
             ELSE IF MatchAt(stt_str, 1, <<"B">>)
             THEN IF e1 >= 2
                  THEN [StepNum |-> Some(ToInt(SubSeq(stt_str, 2, e1))),
                        Level |-> "sub" \o Str(depth),
                        SubStep |-> <<sub1, sub2>>]
                  ELSE NotParsed
             ELSE NotParsed

\* the rows load_data keeps: STT is not NaN and not blank
KeptRows(rows) == SelectSeq(rows, LAMBDA r : ~r.STT.na /\ Strip(r.STT.s) # <<>>)

\* load_data(): the frame with the columns StepNum, Level and SubStep added
\* (StepNum holds the numbers parse_step returned; a column that pandas keeps as
\* floats holds the same numbers)
load_data(rows) ==
    [i \in DOMAIN KeptRows(rows) |->
        [row |-> KeptRows(rows)[i], parsed |-> parse_step(KeptRows(rows)[i].STT)]]

\* "if x" of Python for an int or None, and for a level
TruthyNum(x) == x # None /\ x[1] # 0
TruthyLevel(l) == l # "None"

\* str(cell).strip() if pd.notna(cell) else other
StripOr(cell, other) == IF cell.na THEN other ELSE Strip(cell.s)

\* the dict assigned to steps[current_step] on a header row
StepInfo(r, step_num) ==
    [title |-> Collapse(StripOr(r.NoiDung, MARKER \o <<" ">> \o Chars(step_num))),
     can_cu |-> StripOr(r.CanCu, <<>>),
     can_cu_tien_do |-> StripOr(r.CanCuTienDo, <<>>),
     substeps |-> <<>>]

\* substep_info of a sub-step row
SubstepInfo(r, level) ==
    [code |-> Strip(r.STT.s),
     content |-> Collapse(StripOr(r.NoiDung, <<>>)),
     don_vi |-> StripOr(r.DonViThucHien, <<>>),
     can_cu |-> StripOr(r.CanCu, <<>>),
     thoi_gian |-> StripOr(r.ThoiGian, <<>>),
     can_cu_tien_do |-> StripOr(r.CanCuTienDo, <<>>),
     ghi_chu |-> StripOr(r.GhiChu, <<>>),
     level |-> level]

\* the locals of process_steps before its loop
LoopStart == [steps |-> <<>>, current_step |-> None]

\* an iteration that files a sub-step row under its own step number, whatever
\* step is open
ProcessRowAnyStep(acc, fr) ==
    LET step_num == fr.parsed.StepNum
        level == fr.parsed.Level
    IN  IF level = "step" /\ TruthyNum(step_num)
        THEN [steps |-> Put(acc.steps, step_num[1], StepInfo(fr.row, step_num[1])),
              current_step |-> step_num]
        ELSE IF TruthyLevel(level) /\ TruthyNum(step_num) /\ Has(acc.steps, step_num[1])
        THEN [acc EXCEPT !.steps =
                  Put(@, step_num[1],
                      [Get(@, step_num[1]) EXCEPT
                          !.substeps = Append(@, SubstepInfo(fr.row, level))])]
        ELSE acc

\* an iteration whose header branch keeps the sub-steps a step already has
ProcessRowKeeping(acc, fr) ==
    LET step_num == fr.parsed.StepNum
        level == fr.parsed.Level
    IN  IF level = "step" /\ TruthyNum(step_num)
        THEN [steps |-> Put(acc.steps, step_num[1],
                            [StepInfo(fr.row, step_num[1]) EXCEPT
                                !.substeps = IF Has(acc.steps, step_num[1])
                                             THEN Get(acc.steps, step_num[1]).substeps
                                             ELSE <<>>]),
              current_step |-> step_num]
        ELSE IF TruthyLevel(level) /\ step_num = acc.current_step /\ TruthyNum(acc.current_step)
        THEN [acc EXCEPT !.steps =
                  Put(@, step_num[1],
                      [Get(@, step_num[1]) EXCEPT
                          !.substeps = Append(@, SubstepInfo(fr.row, level))])]
        ELSE acc

\* one iteration of the loop of process_steps on the frame row fr
ProcessRow(acc, fr) ==
    LET step_num == fr.parsed.StepNum
        level == fr.parsed.Level
    IN  IF level = "step" /\ TruthyNum(step_num)
        THEN [steps |-> Put(acc.steps, step_num[1], StepInfo(fr.row, step_num[1])),
              current_step |-> step_num]
        ELSE IF TruthyLevel(level) /\ step_num = acc.current_step /\ TruthyNum(acc.current_step)
        THEN [acc EXCEPT !.steps =
                  Put(@, step_num[1],
                      [Get(@, step_num[1]) EXCEPT
                          !.substeps = Append(@, SubstepInfo(fr.row, level))])]
        ELSE acc

RECURSIVE Loop(_, _)
\* the locals of process_steps after the rows fs, starting from acc
Loop(acc, fs) == IF fs = <<>> THEN acc ELSE Loop(ProcessRow(acc, Head(fs)), Tail(fs))

\* process_steps(df)
process_steps(fs) == Loop(LoopStart, fs).steps

\* 'ngày'
DAY_UNIT == <<"n", "g", "à", "y">>

\* the lengths k for which (\d+)\s*ngày matches at i with a group of k digits
DayGroups(s, i) ==
    {k \in 1..(DigitRunEnd(s, i) - i + 1) : MatchAt(s, SpaceRunEnd(s, i + k) + 1, DAY_UNIT)}

\* an extraction that takes the last match of the text
extract_last_days(text) ==
    LET s == Lower(text)
        starts == {i \in 1..Len(s) : DayGroups(s, i) # {}}
        i == Max(starts)
    IN  IF starts = {} THEN 0
        ELSE ToInt(SubSeq(s, i, i + Max(DayGroups(s, i)) - 1))

\* extract_days(text): the first item of re.findall, the greedy match at the
\* leftmost position that has one
extract_days(text) ==
    LET s == Lower(text)
        starts == {i \in 1..Len(s) : DayGroups(s, i) # {}}
        i == Min(starts)
    IN  IF text = <<>> THEN 0
        ELSE IF starts = {} THEN 0
        ELSE ToInt(SubSeq(s, i, i + Max(DayGroups(s, i)) - 1))

RECURSIVE SumDays(_)
\* total of the loop over step_data['substeps']
SumDays(subs) == IF subs = <<>> THEN 0 ELSE extract_days(Head(subs).thoi_gian) + SumDays(Tail(subs))

\* calculate_total_days(steps)
calculate_total_days(st) == [i \in DOMAIN st |-> [k |-> st[i].k, v |-> SumDays(st[i].v.substeps)]]

\* ------------------------------------------------------ state of the table
VARIABLES
    table,              \* the rows read_csv returns (the seven named columns)
    df,                 \* the frame load_data returns
    model,              \* the dict process_steps returns
    step_days,          \* the dict calculate_total_days returns
    stage               \* how far main has come: table, frame, model, days

tvars == <<table, df, model, step_days, stage>>

\* a row of the table: DonViThucHien and GhiChu are left empty
Row(stt, noi_dung, can_cu, thoi_gian, tien_do) ==
    [STT |-> stt, NoiDung |-> noi_dung, DonViThucHien |-> NaN, CanCu |-> can_cu,
     ThoiGian |-> thoi_gian, CanCuTienDo |-> tien_do, GhiChu |-> NaN]

\* "BƯỚC 1" with a title that holds a double space, and both bases
HeaderOne ==
    Row(Text(<<"B", "Ư", "Ớ", "C", " ", "1">>), Text(<<" ", "A", " ", " ", "b">>),
        Text(<<"L">>), NaN, Text(<<"P">>))

\* "bước1": lower case, no space, no title, no bases
HeaderOneBare == Row(Text(<<"b", "ư", "ớ", "c", "1">>), NaN, NaN, NaN, NaN)

\* "BƯỚC 2" with a title cell of two spaces
HeaderTwoBlank ==
    Row(Text(<<"B", "Ư", "Ớ", "C", " ", "2">>), Text(<<" ", " ">>), Text(<<"M">>), NaN, NaN)

\* "BƯỚC 0"
HeaderZero == Row(Text(<<"B", "Ư", "Ớ", "C", " ", "0">>), Text(<<"Z">>), NaN, NaN, NaN)

\* "B1.1", 5 ngày
SubOneOne ==
    Row(Text(<<"B", "1", ".", "1">>), Text(<<"c">>), NaN, Text(<<"5", " ", "n", "g", "à", "y">>), NaN)

\* " b1.2": leading space, lower case, a duration without the unit
SubOneTwo == Row(Text(<<" ", "b", "1", ".", "2">>), NaN, NaN, Text(<<"3", " ", "h">>), NaN)

\* "B1.1.1", 10Ngày
SubOneOneOne ==
    Row(Text(<<"B", "1", ".", "1", ".", "1">>), Text(<<"d">>), NaN,
        Text(<<"1", "0", "N", "g", "à", "y">>), NaN)

\* "B2.1"
SubTwoOne == Row(Text(<<"B", "2", ".", "1">>), Text(<<"e">>), NaN, NaN, NaN)

\* "B1": the letter and a step number, no dot-group
SubOneBare == Row(Text(<<"B", "1">>), Text(<<"f">>), NaN, Text(<<"2", " ", "n", "g", "à", "y">>), NaN)

\* "I": a section heading of the table
Heading == Row(Text(<<"I">>), Text(<<"g">>), NaN, NaN, NaN)

TableRows ==
    {HeaderOne, HeaderOneBare, HeaderTwoBlank, HeaderZero, SubOneOne, SubOneTwo,
     SubOneOneOne, SubTwoOne, SubOneBare, Heading}

\* the tables of at most MaxRows rows
Tables == UNION {[1..n -> TableRows] : n \in 0..MaxRows}

\* duration cells as process_steps stores them (stripped texts)
DurationTexts ==
    {<<>>,
     <<"5", " ", "n", "g", "à", "y">>,
     <<"1", "0", "N", "G", "À", "Y">>,
     <<"3", " ", "h">>,
     <<"3", " ", "4", " ", "n", "g", "à", "y", " ", "9", "n", "g", "à", "y">>,
     <<"0", "7", " ", "\n", "n", "g", "à", "y", " ", "l", "v">>}

\* a sub-step as process_steps builds it, with the duration text t
SubstepWith(t) ==
    [code |-> <<"B", "1", ".", "1">>, content |-> <<>>, don_vi |-> <<>>, can_cu |-> <<>>,
     thoi_gian |-> t, can_cu_tien_do |-> <<>>, ghi_chu |-> <<>>, level |-> "sub1"]

\* a step as process_steps builds it, with the sub-step durations ts
StepWith(ts) ==
    [title |-> <<"A">>, can_cu |-> <<>>, can_cu_tien_do |-> <<>>,
     substeps |-> [j \in DOMAIN ts |-> SubstepWith(ts[j])]]

DurationLists == UNION {[1..n -> DurationTexts] : n \in 0..MaxSubsteps}

\* models of one step, or of two steps of which the second has no sub-step
DayModels ==
    {<<[k |-> 1, v |-> StepWith(ts)]>> : ts \in DurationLists}
        \cup {<<[k |-> 1, v |-> StepWith(ts)], [k |-> 2, v |-> StepWith(<<>>)]>> :
                ts \in DurationLists}

\* ----------------------------------------------- state of the load in main
VARIABLES
    source,             \* the condition of the CSV file: see Sources
    load_calls,         \* calls of load_data() in the last run of main
    load_errors         \* st.error calls of load_data and main in the last run of main

lvars == <<source, load_calls, load_errors>>

\* the CSV file can be read, is missing (open raises), or is not UTF-8 or has
\* fewer than seven columns (read_csv or the column assignment raises)
Sources == {"ok", "missing", "undecodable"}

\* the try block of load_data and its except branch: the frame or None, and
\* the st.error calls
read_table(src) ==
    [df_is_none |-> src # "ok", errors |-> IF src = "ok" THEN 0 ELSE 1]

\* the CSV file is readable and no run of main has happened
LoadIdle ==
    /\ source = "ok"
    /\ load_calls = 0
    /\ load_errors = 0

\* ------------------------------------------------------ uploaded documents
\* file names of the upload directory, as texts
FileA_pdf == <<"a", ".", "p", "d", "f">>

FileA_txt == <<"a", ".", "t", "x", "t">>

FileB_txt == <<"b", ".", "t", "x", "t">>

FileC_docx == <<"c", ".", "d", "o", "c", "x">>

FileNames == {FileA_pdf, FileA_txt, FileB_txt, FileC_docx}

\* Path(filename).stem: the name without its last suffix; a dot that opens or
\* ends the name starts no suffix
Stem(name) ==
    LET last_dot == Max({0} \cup {i \in DOMAIN name : name[i] = "."})
    IN  IF 1 < last_dot /\ last_dot < Len(name)
        THEN SubSeq(name, 1, last_dot - 1)
        ELSE name

\* storage_dir / f"{base_name}_text.txt"
TextPath(filename) == Stem(filename) \o <<"_", "t", "e", "x", "t", ".", "t", "x", "t">>

\* the paths of the upload directory that hold documents or extracted texts
Paths == FileNames \cup {TextPath(n) : n \in FileNames}

Absent == [kind |-> "absent"]

\* the bytes of the uploaded file name
Data(name) == [kind |-> "data", of |-> name]

\* the text extract_text_from_file returns for the uploaded file name
Extracted(name) == [kind |-> "text", of |-> name]

\* length of the text extract_text_from_file returns: a scanned file yields
\* no text, a long one more than the assistant takes
TextSize(name) ==
    CASE name = FileA_pdf -> 6000
      [] name = FileA_txt -> 5000
      [] name = FileC_docx -> 4000
      [] OTHER -> 0

\* the upload directory before any upload: no metadata.json, no file
NoUploads ==
    [metadata |-> [exists |-> FALSE, entries |-> <<>>],
     stored |-> [p \in Paths |-> Absent]]

\* load_file_metadata(storage_dir)
load_file_metadata(fs) == IF fs.metadata.exists THEN fs.metadata.entries ELSE <<>>

\* save_file_info(filename, file_type, storage_dir) with the uuid it draws
save_file_info(fs, filename, id) ==
    [fs EXCEPT !.metadata =
        [exists |-> TRUE,
         entries |-> Append(load_file_metadata(fs),
                            [id |-> id, filename |-> filename, file_path |-> filename])]]

\* save_text_content(filename, text_content, storage_dir)
save_text_content(fs, filename, text) ==
    [fs EXCEPT !.stored[TextPath(filename)] = text]

\* get_saved_text_path(filename, storage_dir)
get_saved_text_path(fs, filename) ==
    IF fs.stored[TextPath(filename)] # Absent THEN Some(TextPath(filename)) ELSE None

\* the loop of render_file_management over one new file of the uploader
upload_file(fs, name, id) ==
    LET written == [fs EXCEPT !.stored[name] = Data(name)]
        listed == save_file_info(written, name, id)
    IN  IF TextSize(name) > 0
        THEN save_text_content(listed, name, Extracted(name))
        ELSE listed

\* the loop of delete_file_info that drops only the entry it found last
RemainingButLast(entries, filename) ==
    LET hits == {i \in DOMAIN entries : entries[i].filename = filename}
    IN  IF hits = {} THEN entries
        ELSE SubSeq(entries, 1, Max(hits) - 1) \o SubSeq(entries, Max(hits) + 1, Len(entries))

\* updated_metadata of delete_file_info: the entries of other file names
RECURSIVE Remaining(_, _)
Remaining(entries, filename) ==
    IF entries = <<>> THEN <<>>
    ELSE IF Head(entries).filename = filename
         THEN Remaining(Tail(entries), filename)
         ELSE <<Head(entries)>> \o Remaining(Tail(entries), filename)

\* file_info of delete_file_info: the last entry of that file name, or None
Found(entries, filename) ==
    LET hits == {i \in DOMAIN entries : entries[i].filename = filename}
    IN  IF hits = {} THEN None ELSE Some(entries[Max(hits)])

\* delete_file_info(filename, storage_dir): the directory after it and the
\* value it returns
delete_file_info(fs, filename) ==
    IF ~fs.metadata.exists THEN [fs |-> fs, result |-> FALSE]
    ELSE LET file_info == Found(fs.metadata.entries, filename)
             updated_metadata == Remaining(fs.metadata.entries, filename)
         IN  IF file_info = None THEN [fs |-> fs, result |-> FALSE]
             ELSE LET unlinked == [fs.stored EXCEPT ![file_info[1].file_path] = Absent]
                      text_file_path == get_saved_text_path([fs EXCEPT !.stored = unlinked], filename)
                      cleaned == IF text_file_path # None
                                 THEN [unlinked EXCEPT ![text_file_path[1]] = Absent]
                                 ELSE unlinked
                  IN  [fs |-> [metadata |-> [exists |-> TRUE, entries |-> updated_metadata],
                               stored |-> cleaned],
                       result |-> TRUE]

\* ------------------------------------------------------- assistant context
DOC_LIMIT == 5000

\* len("Thông tin về quy trình:\n")
CONTEXT_HEAD == 24

\* len("\nBước ") + len(": ") + len("\n")
STEP_LINE == 9

\* len("Căn cứ pháp lý: ") + len("\n"), and the same for "Căn cứ tiến độ: "
BASIS_LINE == 17

\* len("\n\n=== TÀI LIỆU ĐÃ UPLOAD (BẠN CẦN TRẢ LỜI DỰA TRÊN CÁC TÀI LIỆU NÀY) ===\n")
DOCS_HEAD == 73

\* len("\n--- Nội dung file: ") + len(" ---\n") + len("\n")
DOC_FRAME == 26

\* len("... (còn ") + len(" ký tự nữa)\n")
MORE_FRAME == 21

\* len("\n=== KẾT THÚC TÀI LIỆU ===\n")
DOCS_END == 27

\* len of the closing note "\nLƯU Ý: ... chính xác.\n"
DOCS_NOTE == 145

\* length of the lines of one step in the context
StepContext(item) ==
    STEP_LINE + Len(Chars(item.k)) + Len(item.v.title)
        + BASIS_LINE + Len(item.v.can_cu)
        + (IF item.v.can_cu_tien_do # <<>> THEN BASIS_LINE + Len(item.v.can_cu_tien_do) ELSE 0)

\* length of the block of one document: content[:5000] and the remainder note
DocContext(item) ==
    DOC_FRAME + Len(item.k) + Min({item.v, DOC_LIMIT})
        + (IF item.v > DOC_LIMIT THEN MORE_FRAME + Len(Chars(item.v - DOC_LIMIT)) ELSE 0)

RECURSIVE Total(_)
Total(lens) == IF lens = <<>> THEN 0 ELSE Head(lens) + Total(Tail(lens))

\* the steps of a model in the order of sorted(steps.keys())
RECURSIVE SortedItems(_)
SortedItems(st) ==
    IF st = <<>> THEN <<>>
    ELSE LET least == CHOOSE i \in DOMAIN st : \A j \in DOMAIN st : st[i].k <= st[j].k
         IN  <<st[least]>> \o SortedItems(SubSeq(st, 1, least - 1) \o SubSeq(st, least + 1, Len(st)))

\* length of the context render_ai_assistant builds from the steps and from
\* st.session_state['uploaded_documents_content']
ContextLength(st, docs) ==
    CONTEXT_HEAD
        + Total([i \in DOMAIN st |-> StepContext(SortedItems(st)[i])])
        + (IF docs # <<>>
           THEN DOCS_HEAD + Total([i \in DOMAIN docs |-> DocContext(docs[i])])
                    + DOCS_END + DOCS_NOTE
           ELSE 0)

\* the loop that loads the listed files not yet in uploaded_documents_content
RECURSIVE LoadDocuments(_, _, _)
LoadDocuments(docs, entries, stored) ==
    IF entries = <<>> THEN docs
    ELSE LET info == Head(entries)
             loaded == IF /\ ~Has(docs, info.filename)
                          /\ stored[info.file_path] # Absent
                          /\ TextSize(stored[info.file_path].of) > 0
                       THEN Put(docs, info.filename, TextSize(stored[info.file_path].of))
                       ELSE docs
         IN  LoadDocuments(loaded, Tail(entries), stored)

\* -------------------------------------------------------------- navigation
\* page_options of main
page_options(avail) == IF avail THEN {"overview", "documents", "assistant"} ELSE {"overview"}

NoInput == [kind |-> "rerun"]

\* the radio was set to page p
PageInput(p) == [kind |-> "select", page |-> p]

\* the button of step n was pressed
StepInput(n) == [kind |-> "click", step |-> n]

\* the navigation keys of st.session_state, and whether the last run of main
\* removed a selected_step that was set
NavStart ==
    [navigation |-> None, last_page_selection |-> None, selected_step |-> None,
     cleared |-> FALSE]

\* the value the radio returns: the page the user set it to, else the value
\* of st.session_state['navigation'] after its default
PageValue(ns, input) ==
    IF input.kind = "select" THEN Some(input.page)
    ELSE IF ns.navigation = None THEN Some("overview")
    ELSE ns.navigation

\* last_page_selection after its default
LastValue(ns, input) ==
    IF ns.last_page_selection = None THEN PageValue(ns, input) ELSE ns.last_page_selection

\* the page-change test that leaves selected_step in place
SidebarKeeping(ns, input) ==
    [navigation |-> PageValue(ns, input), last_page_selection |-> PageValue(ns, input),
     selected_step |-> ns.selected_step, cleared |-> FALSE]

\* main from the navigation defaults to the page-change test
Sidebar(ns, input) ==
    IF PageValue(ns, input) # LastValue(ns, input)
    THEN [navigation |-> PageValue(ns, input), last_page_selection |-> PageValue(ns, input),
          selected_step |-> None, cleared |-> ns.selected_step # None]
    ELSE [navigation |-> PageValue(ns, input), last_page_selection |-> LastValue(ns, input),
          selected_step |-> ns.selected_step, cleared |-> FALSE]

\* the step buttons: the pressed one sets selected_step and st.rerun() runs
\* main again from the top
Buttons(ns, input) ==
    IF input.kind = "click"
    THEN Sidebar([ns EXCEPT !.selected_step = Some(input.step)], NoInput)
    ELSE ns

\* the main content main shows
Dispatch(ns, avail) ==
    IF ns.selected_step # None THEN [view |-> "detail", step |-> ns.selected_step]
    ELSE IF ns.navigation[1] = "overview" THEN [view |-> "overview", step |-> None]
    ELSE IF ns.navigation[1] = "documents" /\ avail THEN [view |-> "documents", step |-> None]
    ELSE IF ns.navigation[1] = "assistant" /\ avail THEN [view |-> "assistant", step |-> None]
    ELSE [view |-> "nothing", step |-> None]

\* the navigation part of a run of main
Navigate(ns, input) == Buttons(Sidebar(ns, input), input)

\* --------------------------------- state of the documents and of navigation
VARIABLES
    uploads,            \* the upload directory: metadata.json and the files
    processed,          \* st.session_state['file_management_uploaded']
    next_id,            \* the uuids drawn so far
    file_op,            \* the last operation on the upload directory
    file_arg,           \* the file name it was about
    file_result,        \* what delete_file_info returned, if it was a deletion
    documents,          \* st.session_state['uploaded_documents_content'] (lengths)
    context_sent,       \* length of the context of the last get_ai_response call
    features,           \* FEATURES_AVAILABLE
    nav,                \* navigation, last_page_selection, selected_step
    nav_op,             \* the sidebar input of the last run of main
    rendered            \* the main content the last run of main showed

fvars == <<uploads, processed, next_id, file_op, file_arg, file_result>>

cvars == <<documents, context_sent>>

nvars == <<features, nav, nav_op, rendered>>

ovars == <<fvars, cvars, nvars>>

\* no document was uploaded and the documents page was not used
FilesIdle ==
    /\ uploads = NoUploads
    /\ processed = <<>>
    /\ next_id = 0
    /\ file_op = "start"
    /\ file_arg = <<>>
    /\ file_result = "none"

\* the assistant page was not used
ChatIdle ==
    /\ documents = <<>>
    /\ context_sent = None

\* the sidebar was not used
NavIdle ==
    /\ features = TRUE
    /\ nav = NavStart
    /\ nav_op = [kind |-> "start"]
    /\ rendered = [view |-> "start", step |-> None]

OthersIdle ==
    /\ FilesIdle
    /\ ChatIdle
    /\ NavIdle

\* the table plays no part in the behaviours of the status store
TableIdle ==
    /\ table = <<>>
    /\ df = <<>>
    /\ model = <<>>
    /\ step_days = <<>>
    /\ stage = "idle"


\* ------------------------------------------------------------- persistence
\* load_checklist_status(): the pair of dicts it returns, and whether it
\* called st.warning (the file exists and reading or decoding it raised)
load_checklist_status(f) ==
    IF f.kind = "json"
    THEN [step_status |-> ParseMap(f.step_status), substep_status |-> ParseMap(f.substep_status),
          warned |-> FALSE]
    ELSE [step_status |-> <<>>, substep_status |-> <<>>, warned |-> f.kind # "absent"]

\* save_checklist_status with a rollback: a failed write puts the maps back to
\* what the file holds
save_rolling_back(w) ==
    LET out == w.disk
        step == IF "step_status" \in w.keys THEN w.step_status ELSE <<>>
        sub == IF "substep_status" \in w.keys THEN w.substep_status ELSE <<>>
        old == load_checklist_status(w.file)
    IN  IF w.raised THEN w
        ELSE IF out = "ok"
        THEN [w EXCEPT !.file = JsonFile(step, sub), !.save_result = "ok"]
        ELSE [w EXCEPT !.step_status = old.step_status, !.substep_status = old.substep_status,
                       !.save_result = "failed", !.save_failed = TRUE,
                       !.errors_shown = @ + 1]

\* a save that reports success and writes nothing
save_skipped(w) == IF w.raised THEN w ELSE [w EXCEPT !.save_result = "ok"]

\* save_checklist_status(): open(..., 'w') truncates the file, json.dump then
\* writes the text piece by piece; every exception is caught and reported.
save_checklist_status(w) ==
    LET out == w.disk
        step == IF "step_status" \in w.keys THEN w.step_status ELSE <<>>
        sub == IF "substep_status" \in w.keys THEN w.substep_status ELSE <<>>
    IN  IF w.raised THEN w
        ELSE IF out = "ok"
        THEN [w EXCEPT !.file = JsonFile(step, sub), !.save_result = "ok"]
        ELSE [w EXCEPT !.file = IF out = "open_failed" THEN @ ELSE CorruptFile,
                       !.save_result = "failed", !.save_failed = TRUE,
                       !.errors_shown = @ + 1]

\* init that appends a default entry for every key of the table on every call
AddAlways(d, ks) == d \o [i \in DOMAIN ks |-> [k |-> ks[i], v |-> DefaultEntry]]

\* init that adds no default entry
AddNothing(d, ks) == d

\* init that rebuilds the map from the keys of the table alone
ResetToDefaults(d, ks) == [i \in DOMAIN ks |-> [k |-> ks[i], v |-> DefaultEntry]]

RECURSIVE AddMissing(_, _)
\* for key in ks: if key not in d: d[key] = default entry
AddMissing(d, ks) ==
    IF ks = <<>> THEN d
    ELSE AddMissing(IF Has(d, Head(ks)) THEN d ELSE Put(d, Head(ks), DefaultEntry), Tail(ks))

\* the keys of steps, in the order steps.keys() yields them
StepKeys(st) == [n \in 1..Len(st) |-> IntKey(n)]

\* the sub-step keys of step n, in the order of step_data['substeps']
SubKeysOf(st, n) == [j \in 1..Len(st[n].substeps) |-> SubstepKey(n, st[n].substeps[j].code)]

RECURSIVE AllSubKeys(_, _)
\* the sub-step keys of steps n.., in the order of the nested loops of init
AllSubKeys(st, n) == IF n > Len(st) THEN <<>> ELSE SubKeysOf(st, n) \o AllSubKeys(st, n + 1)

\* init that reads the status file on every call
init_reloading(w, st) ==
    LET loaded == load_checklist_status(w.file)
        w1 == [w EXCEPT !.step_status = loaded.step_status,
                        !.substep_status = loaded.substep_status,
                        !.keys = @ \cup {"step_status", "substep_status", "checklist_loaded"},
                        !.did_load = TRUE, !.warned = loaded.warned,
                        !.from_file = [step_status |-> loaded.step_status,
                                       substep_status |-> loaded.substep_status]]
        w2 == [w1 EXCEPT !.step_status = AddMissing(@, StepKeys(st))]
        w3 == [w2 EXCEPT !.substep_status = AddMissing(@, AllSubKeys(st, 1))]
    IN  save_checklist_status(w3)

\* init_checklist_status(steps)
init_checklist_status(w, st) ==
    LET loaded == load_checklist_status(w.file)
        w1 == IF "checklist_loaded" \notin w.keys
              THEN [w EXCEPT !.step_status = loaded.step_status,
                             !.substep_status = loaded.substep_status,
                             !.keys = @ \cup {"step_status", "substep_status", "checklist_loaded"},
                             !.did_load = TRUE, !.warned = loaded.warned,
                             !.from_file = [step_status |-> loaded.step_status,
                                            substep_status |-> loaded.substep_status]]
              ELSE w
        w2 == [w1 EXCEPT !.step_status = AddMissing(IF "step_status" \in w1.keys THEN @ ELSE <<>>,
                                                    StepKeys(st)),
                         !.keys = @ \cup {"step_status"}]
        w3 == [w2 EXCEPT !.substep_status = AddMissing(IF "substep_status" \in w2.keys THEN @ ELSE <<>>,
                                                       AllSubKeys(st, 1)),
                         !.keys = @ \cup {"substep_status"}]
    IN  save_checklist_status(w3)

\* calculate_overall_progress(steps); int((c / t) * 100) is (c * 100) \div t
\* for the step counts the bounds reach
calculate_overall_progress(keys, ss, st) ==
    IF "step_status" \notin keys THEN 0
    ELSE IF Len(st) = 0 THEN 0
    ELSE (Cardinality({i \in DOMAIN ss : ss[i].v.status = "completed"}) * 100) \div Len(st)

\* ------------------------------------------------------------------ views
\* A rerun is triggered by one widget interaction: the edited widget returns
\* the new value, every other widget returns the value it shows already.
NoEdit == [kind |-> "none", key |-> IntKey(0), val |-> ""]
StatusEdit(k, s) == [kind |-> "status", key |-> k, val |-> s]
NotesEdit(k, t) == [kind |-> "notes", key |-> k, val |-> t]

\* the edits a view of step n offers: its status selectbox and those of its sub-steps
DetailEdits(st, n) ==
    {NoEdit} \cup {StatusEdit(k, s) : k \in {IntKey(n)} \cup Range(SubKeysOf(st, n)), s \in Statuses}

\* render_step_checklist also shows the notes text_area of the step
ChecklistEdits(st, n) == DetailEdits(st, n) \cup {NotesEdit(IntKey(n), t) : t \in Notes}

\* every step of the model is on the checklist page
PageEdits(st) == UNION {ChecklistEdits(st, n) : n \in 1..Len(st)}

\* ['not_started', 'in_progress', 'completed'].index(s) raises ValueError
\* for any other s (and d[k] raises KeyError when d has no k)
IndexRaises(s) == s \notin Statuses

\* what st.selectbox(..., index=index(current), key=...) returns
Selected(current, k, edit) ==
    IF edit.kind = "status" /\ edit.key = k THEN edit.val ELSE current

\* what st.text_area(..., value=current, key=...) returns
Typed(current, k, edit) ==
    IF edit.kind = "notes" /\ edit.key = k THEN edit.val ELSE current

\* a status assignment that rebuilds the map around the one entry
SetStatusAlone(d, k, s) == <<[k |-> k, v |-> [Get(d, k) EXCEPT !.status = s]]>>

\* d[k]['status'] = s
SetStatus(d, k, s) == Put(d, k, [Get(d, k) EXCEPT !.status = s])

\* d[k]['notes'] = t
SetNotes(d, k, t) == Put(d, k, [Get(d, k) EXCEPT !.notes = t])

\* the "ensure initialized" blocks that open render_step_detail and
\* render_step_checklist
EnsureStep(w, st, step_num) ==
    [w EXCEPT !.step_status = AddMissing(IF "step_status" \in w.keys THEN @ ELSE <<>>,
                                         <<IntKey(step_num)>>),
              !.substep_status = AddMissing(IF "substep_status" \in w.keys THEN @ ELSE <<>>,
                                            SubKeysOf(st, step_num)),
              !.keys = @ \cup {"step_status", "substep_status"}]

\* the status selectbox of a step and the assignment that follows it
SelectStepStatus(w, step_num, edit) ==
    LET k == IntKey(step_num)
        current == Get(w.step_status, k).status
    IN  IF w.raised THEN w
        ELSE IF ~Has(w.step_status, k) \/ IndexRaises(current) THEN [w EXCEPT !.raised = TRUE]
        ELSE [w EXCEPT !.step_status = SetStatus(@, k, Selected(current, k, edit))]

\* the status selectbox of a sub-step and the assignment that follows it
SelectSubstepStatus(w, k, edit) ==
    LET current == Get(w.substep_status, k).status
    IN  IF w.raised THEN w
        ELSE IF ~Has(w.substep_status, k) \/ IndexRaises(current) THEN [w EXCEPT !.raised = TRUE]
        ELSE [w EXCEPT !.substep_status = SetStatus(@, k, Selected(current, k, edit))]

\* the notes text_area of a step and the assignment that follows it
EditStepNotes(w, step_num, edit) ==
    LET k == IntKey(step_num)
    IN  IF w.raised THEN w
        ELSE IF ~Has(w.step_status, k) THEN [w EXCEPT !.raised = TRUE]
        ELSE [w EXCEPT !.step_status = SetNotes(@, k, Typed(Get(@, k).notes, k, edit))]

RECURSIVE SubstepsSaved(_, _, _)
\* for substep in step_data['substeps']: selectbox, assignment, save
\* (render_step_checklist re-adds a missing entry first; after EnsureStep
\* none is missing)
SubstepsSaved(w, ks, edit) ==
    IF ks = <<>> THEN w
    ELSE SubstepsSaved(
             save_checklist_status(
                 SelectSubstepStatus(
                     [w EXCEPT !.substep_status = AddMissing(@, <<Head(ks)>>)],
                     Head(ks), edit)),
             Tail(ks), edit)

RECURSIVE SubstepsUnsaved(_, _, _)
\* for substep in step_data['substeps']: selectbox, assignment
SubstepsUnsaved(w, ks, edit) ==
    IF ks = <<>> THEN w
    ELSE SubstepsUnsaved(SelectSubstepStatus(w, Head(ks), edit), Tail(ks), edit)

\* render_step_detail(steps, step_num)
render_step_detail(w, st, step_num, edit) ==
    LET w1 == EnsureStep(w, st, step_num)
        w2 == save_checklist_status(SelectStepStatus(w1, step_num, edit))
    IN  SubstepsSaved(w2, SubKeysOf(st, step_num), edit)

\* render_step_checklist(step_num, step_data)
render_step_checklist(w, st, step_num, edit) ==
    LET w1 == EnsureStep(w, st, step_num)
        w2 == save_checklist_status(SelectStepStatus(w1, step_num, edit))
        w3 == save_checklist_status(EditStepNotes(w2, step_num, edit))
    IN  SubstepsSaved(w3, SubKeysOf(st, step_num), edit)

\* one iteration of the loop of render_checklist_status: its save is inside
\* "if step_data['substeps']:"
ChecklistStep(w, st, step_num, edit) ==
    LET w1 == SelectStepStatus(w, step_num, edit)
        w2 == EditStepNotes(w1, step_num, edit)
    IN  IF Len(st[step_num].substeps) > 0
        THEN save_checklist_status(SubstepsUnsaved(w2, SubKeysOf(st, step_num), edit))
        ELSE w2

RECURSIVE ChecklistLoop(_, _, _, _)
\* for step_num in sorted(steps.keys())
ChecklistLoop(w, st, edit, n) ==
    IF n > Len(st) THEN w
    ELSE ChecklistLoop(ChecklistStep(w, st, n, edit), st, edit, n + 1)

\* render_checklist_status(steps)
render_checklist_status(w, st, edit) ==
    ChecklistLoop(init_checklist_status(w, st), st, edit, 1)

\* the sidebar block of main that re-adds missing step entries
SidebarDefaults(w, st) ==
    [w EXCEPT !.step_status = AddMissing(IF "step_status" \in w.keys THEN @ ELSE <<>>,
                                         StepKeys(st)),
              !.keys = @ \cup {"step_status"}]

\* main() up to the page dispatch
main(w, st) == SidebarDefaults(init_checklist_status(w, st), st)

\* main() that goes on with an empty model when load_data returned None
main_with_empty_model(w) == main(w, <<>>)

\* main() when load_data returned None: st.error and return, before
\* process_steps, init_checklist_status and the sidebar
main_without_table(w) == w

\* -------------------------------------------------------------- behaviours
\* a status file left by an earlier version or edited by hand: an entry for
\* step 1 with a status outside the options, an entry for a step the table no
\* longer has, and a sub-step entry with a status outside the options
LegacyFile ==
    [kind |-> "json",
     step_status |-> <<[k |-> "1", v |-> [status |-> "archived", notes |-> "memo"]],
                       [k |-> "9", v |-> [status |-> "completed", notes |-> ""]]>>,
     substep_status |-> <<[k |-> "1_B1.1", v |-> [status |-> "archived", notes |-> ""]]>>]

InitFiles == {NoFile, CorruptFile, NotObjectFile, UnreadableFile, LegacyFile}

NoLoad == [step_status |-> <<>>, substep_status |-> <<>>]

StoreStart ==
    /\ file \in InitFiles
    /\ disk = "ok"
    /\ session_keys = {}
    /\ step_status = <<>>
    /\ substep_status = <<>>
    /\ last_op = "start"
    /\ edited = "none"
    /\ edit_kept = TRUE
    /\ did_load = FALSE
    /\ from_file = NoLoad
    /\ warned = FALSE
    /\ save_result = "none"
    /\ save_failed = FALSE
    /\ errors_shown = 0
    /\ raised = FALSE
    /\ events = 0

Init ==
    /\ steps \in ModelChoices
    /\ StoreStart
    /\ TableIdle
    /\ LoadIdle
    /\ OthersIdle

\* what an edit adds to the events of a behaviour
Cost(edit) == IF edit = NoEdit THEN 0 ELSE 1

\* the entry an edit is about, in the maps of w
Edited(w, edit) ==
    IF edit.key.tag = "int" THEN Get(w.step_status, edit.key) ELSE Get(w.substep_status, edit.key)

\* the session holds the value the edited widget returned
Kept(w, edit) ==
    CASE edit.kind = "none" -> TRUE
      [] ~Has(w.step_status \o w.substep_status, edit.key) -> FALSE
      [] edit.kind = "status" -> Edited(w, edit).status = edit.val
      [] OTHER -> Edited(w, edit).notes = edit.val

\* A handler ends: the session, the file and its report become the state.
Finish(w, op, edit) ==
    /\ source = "ok"
    /\ load_calls' = 1
    /\ load_errors' = read_table(source).errors
    /\ events + Cost(edit) <= MaxEvents
    /\ events' = events + Cost(edit)
    /\ session_keys' = w.keys
    /\ step_status' = w.step_status
    /\ substep_status' = w.substep_status
    /\ file' = w.file
    /\ last_op' = op
    /\ edited' = edit.kind
    /\ edit_kept' = Kept(w, edit)
    /\ did_load' = w.did_load
    /\ from_file' = w.from_file
    /\ warned' = w.warned
    /\ save_result' = w.save_result
    /\ save_failed' = w.save_failed
    /\ errors_shown' = w.errors_shown
    /\ raised' = w.raised
    /\ UNCHANGED <<steps, disk, source>>
    /\ UNCHANGED <<tvars, ovars>>

\* a rerun of main that shows a page without status widgets
MainPage ==
    Finish(main(World, steps), "main_page", NoEdit)

\* a rerun of main with selected_step set: the step detail view
MainStepDetail ==
    \E n \in 1..Len(steps) :
        \E edit \in DetailEdits(steps, n) :
            Finish(render_step_detail(main(World, steps), steps, n, edit), "step_detail", edit)

\* the checklist block of one step, on a page main has initialised
StepChecklist ==
    /\ "checklist_loaded" \in session_keys
    /\ \E n \in 1..Len(steps) :
        \E edit \in ChecklistEdits(steps, n) :
            Finish(render_step_checklist(World, steps, n, edit), "step_checklist", edit)

\* the checklist page
ChecklistPage ==
    \E edit \in PageEdits(steps) \cup {NoEdit} :
        Finish(render_checklist_status(World, steps, edit), "checklist_page", edit)

\* the browser session ends and a new one starts: st.session_state is empty,
\* the file stays
NewSession ==
    /\ events < MaxEvents
    /\ events' = events + 1
    /\ session_keys' = {}
    /\ step_status' = <<>>
    /\ substep_status' = <<>>
    /\ last_op' = "new_session"
    /\ edited' = "none"
    /\ edit_kept' = TRUE
    /\ did_load' = FALSE
    /\ warned' = FALSE
    /\ save_result' = "none"
    /\ save_failed' = FALSE
    /\ errors_shown' = 0
    /\ raised' = FALSE
    /\ UNCHANGED <<steps, file, disk, from_file>>
    /\ UNCHANGED <<tvars, lvars, ovars>>

\* the condition of the disk changes between two reruns
DiskChange ==
    /\ events < MaxEvents
    /\ events' = events + 1
    /\ disk' \in Outcomes \ {disk}
    /\ UNCHANGED <<steps, session_keys, step_status, substep_status, file, last_op, edited,
                   edit_kept, did_load,
                   from_file, warned, save_result, save_failed, errors_shown, raised>>
    /\ UNCHANGED <<tvars, lvars, ovars>>

Next ==
    \/ MainPage
    \/ MainStepDetail
    \/ StepChecklist
    \/ ChecklistPage
    \/ NewSession
    \/ DiskChange

Spec == Init /\ [][Next]_vars

\* ---------------------------------- behaviours with a table that may not load
\* a rerun of main in which load_data returns None
MainLoadFailed ==
    /\ source # "ok"
    /\ read_table(source).df_is_none
    /\ load_calls' = 1
    /\ load_errors' = read_table(source).errors + 1
    /\ LET w == main_without_table(World) IN
        /\ session_keys' = w.keys
        /\ step_status' = w.step_status
        /\ substep_status' = w.substep_status
        /\ file' = w.file
        /\ did_load' = w.did_load
        /\ from_file' = w.from_file
        /\ warned' = w.warned
        /\ save_result' = w.save_result
        /\ save_failed' = w.save_failed
        /\ errors_shown' = w.errors_shown
        /\ raised' = w.raised
    /\ last_op' = "load_failed"
    /\ edited' = "none"
    /\ edit_kept' = TRUE
    /\ UNCHANGED <<steps, disk, events, source>>
    /\ UNCHANGED <<tvars, ovars>>

\* load_data is cached (st.cache_data), None included: what its first call
\* met stands for the whole behaviour. With a file that does not load, steps
\* is the model the table would have given.
LoadInit ==
    /\ steps \in ModelChoices
    /\ StoreStart
    /\ TableIdle
    /\ source \in Sources
    /\ load_calls = 0
    /\ load_errors = 0
    /\ OthersIdle

LoadNext ==
    \/ MainPage
    \/ MainStepDetail
    \/ MainLoadFailed
    \/ NewSession
    \/ DiskChange

SpecLoad == LoadInit /\ [][LoadNext]_<<vars, lvars>>

\* ------------------------------------------------- behaviours of the table
\* the status store plays no part in the behaviours of the table
StoreIdle ==
    /\ steps = <<>>
    /\ file = NoFile
    /\ disk = "ok"
    /\ session_keys = {}
    /\ step_status = <<>>
    /\ substep_status = <<>>
    /\ last_op = "start"
    /\ edited = "none"
    /\ edit_kept = TRUE
    /\ did_load = FALSE
    /\ from_file = NoLoad
    /\ warned = FALSE
    /\ save_result = "none"
    /\ save_failed = FALSE
    /\ errors_shown = 0
    /\ raised = FALSE
    /\ events = 0

TableInit ==
    /\ StoreIdle
    /\ LoadIdle
    /\ OthersIdle
    /\ table \in Tables
    /\ df = <<>>
    /\ model = <<>>
    /\ step_days = <<>>
    /\ stage = "table"

\* df = load_data()
LoadData ==
    /\ stage = "table"
    /\ df' = load_data(table)
    /\ stage' = "frame"
    /\ UNCHANGED <<table, model, step_days>>
    /\ UNCHANGED <<vars, lvars, ovars>>

\* steps = process_steps(df)
ProcessSteps ==
    /\ stage = "frame"
    /\ model' = process_steps(df)
    /\ stage' = "model"
    /\ UNCHANGED <<table, df, step_days>>
    /\ UNCHANGED <<vars, lvars, ovars>>

\* step_days = calculate_total_days(steps)
TotalDays ==
    /\ stage = "model"
    /\ step_days' = calculate_total_days(model)
    /\ stage' = "days"
    /\ UNCHANGED <<table, df, model>>
    /\ UNCHANGED <<vars, lvars, ovars>>

TableNext ==
    \/ LoadData
    \/ ProcessSteps
    \/ TotalDays

SpecTable == TableInit /\ [][TableNext]_tvars

\* calculate_total_days on models given directly
DaysInit ==
    /\ StoreIdle
    /\ LoadIdle
    /\ OthersIdle
    /\ table = <<>>
    /\ df = <<>>
    /\ model \in DayModels
    /\ step_days = <<>>
    /\ stage = "model"

DaysNext == TotalDays

SpecDays == DaysInit /\ [][DaysNext]_tvars

\* ------------------------------------------ behaviours of the documents page
\* everything but the table model is as at the start
PageIdle ==
    /\ StoreIdle
    /\ LoadIdle
    /\ table = <<>>
    /\ df = <<>>
    /\ step_days = <<>>

\* a file of the uploader that this session has not processed yet
UploadFile ==
    \E name \in FileNames :
        /\ name \notin Range(processed)
        /\ next_id < MaxUploads
        /\ uploads' = upload_file(uploads, name, next_id + 1)
        /\ processed' = Append(processed, name)
        /\ next_id' = next_id + 1
        /\ file_op' = "upload"
        /\ file_arg' = name
        /\ file_result' = "none"
        /\ UNCHANGED <<cvars, nvars, vars, tvars, lvars>>

\* the delete button of a listed file; a second tab may press it for a file
\* that is gone
DeleteFile ==
    \E name \in FileNames :
        /\ uploads' = delete_file_info(uploads, name).fs
        /\ file_op' = "delete"
        /\ file_arg' = name
        /\ file_result' = IF delete_file_info(uploads, name).result THEN "True" ELSE "False"
        /\ UNCHANGED <<processed, next_id>>
        /\ UNCHANGED <<cvars, nvars, vars, tvars, lvars>>

\* a new browser session: file_management_uploaded is empty again
RestartFiles ==
    /\ processed # <<>>
    /\ processed' = <<>>
    /\ file_op' = "restart"
    /\ file_arg' = <<>>
    /\ file_result' = "none"
    /\ UNCHANGED <<uploads, next_id>>
    /\ UNCHANGED <<cvars, nvars, vars, tvars, lvars>>

FilesInit ==
    /\ PageIdle
    /\ model = <<>>
    /\ stage = "idle"
    /\ OthersIdle

FilesNext ==
    \/ UploadFile
    \/ DeleteFile
    \/ RestartFiles

SpecFiles == FilesInit /\ [][FilesNext]_fvars

\* ------------------------------------------ behaviours of the assistant page
\* tables of BƯỚC rows
HeaderTables == UNION {[1..n -> {HeaderOne, HeaderOneBare, HeaderTwoBlank}] : n \in 0..MaxRows}

\* the models main builds from them
PageModels == {process_steps(load_data(t)) : t \in HeaderTables}

\* render_ai_assistant(steps) with a working client; asked: the chat input
\* holds a question
render_ai_assistant(asked) ==
    /\ documents' = LoadDocuments(documents, load_file_metadata(uploads), uploads.stored)
    /\ context_sent' = IF asked THEN Some(ContextLength(model, documents')) ELSE context_sent

ChatInit ==
    /\ PageIdle
    /\ model \in PageModels
    /\ stage = "model"
    /\ OthersIdle

OpenAssistant == render_ai_assistant(FALSE) /\ UNCHANGED <<fvars, nvars, vars, tvars, lvars>>

AskAssistant == render_ai_assistant(TRUE) /\ UNCHANGED <<fvars, nvars, vars, tvars, lvars>>

ChatNext ==
    \/ UploadFile
    \/ OpenAssistant
    \/ AskAssistant

SpecChat == ChatInit /\ [][ChatNext]_<<fvars, cvars>>

\* -------------------------------------------------- behaviours of navigation
\* a run of main with the sidebar input
Run(input) ==
    /\ nav' = Navigate(nav, input)
    /\ rendered' = Dispatch(Navigate(nav, input), features)
    /\ nav_op' = input
    /\ UNCHANGED <<features, fvars, cvars, vars, tvars, lvars>>

\* the first run of a session, or a rerun by a widget outside the sidebar
Rerun == Run(NoInput)

\* the user sets the radio to another page
SelectPage(p) ==
    /\ nav.navigation # None
    /\ p \in page_options(features) \ {nav.navigation[1]}
    /\ Run(PageInput(p))

\* the user presses the button of step n
ClickStep ==
    /\ nav.navigation # None
    /\ \E n \in Keys(model) : Run(StepInput(n))

NavInit ==
    /\ PageIdle
    /\ model \in PageModels
    /\ stage = "model"
    /\ FilesIdle
    /\ ChatIdle
    /\ features \in BOOLEAN
    /\ nav = NavStart
    /\ nav_op = [kind |-> "start"]
    /\ rendered = [view |-> "start", step |-> None]

NavNext ==
    \/ Rerun
    \/ SelectPage("overview")
    \/ SelectPage("documents")
    \/ SelectPage("assistant")
    \/ ClickStep

SpecNav == NavInit /\ [][NavNext]_nvars

\* the user keeps using the radio: a page that can be chosen is chosen at
\* some time
SpecNavFair ==
    /\ SpecNav
    /\ WF_nvars(SelectPage("overview"))
    /\ WF_nvars(SelectPage("documents"))
    /\ WF_nvars(SelectPage("assistant"))

\* ------------------------------------------------------------ properties
ModelStepNums == 1..Len(steps)

ModelSubKeys == Range(AllSubKeys(steps, 1))

\* the entry the views read for step n: st.session_state['step_status'][n]
StepEntry(n) == Get(step_status, IntKey(n))

\* the content restored in this session is one the application wrote for this
\* table: keys of its steps and sub-steps, statuses among the options
AppWritten ==
    /\ \A i \in DOMAIN from_file.step_status :
        /\ from_file.step_status[i].k.s \in {Str(n) : n \in ModelStepNums}
        /\ from_file.step_status[i].v.status \in Statuses
    /\ \A i \in DOMAIN from_file.substep_status :
        /\ from_file.substep_status[i].k \in ModelSubKeys
        /\ from_file.substep_status[i].v.status \in Statuses

\* the entries of d that stand for the persisted key name s
StandingFor(d, s) == {i \in DOMAIN d : JsonKey(d[i].k) = s}

\* r holds, under each key's persisted name, what d holds, and nothing else
SameContent(d, r) ==
    /\ Cardinality(Keys(d)) = Cardinality(Keys(r))
    /\ \A k \in Keys(d) :
        /\ Has(r, StrKey(JsonKey(k)))
        /\ Get(r, StrKey(JsonKey(k))) = Get(d, k)

AllValid(d) == \A i \in DOMAIN d : d[i].v.status \in Statuses

\* C1: after the initialization that restores the status file in a new
\* session, the entry read for every step of the model exists; it equals the
\* stored entry when storage has one for that step and is the default otherwise.
C1_RestoredStatusUsed ==
    (last_op = "main_page" /\ did_load /\ AppWritten) =>
        \A n \in ModelStepNums :
            /\ Has(step_status, IntKey(n))
            /\ StepEntry(n) = IF Has(from_file.step_status, StrKey(Str(n)))
                              THEN Get(from_file.step_status, StrKey(Str(n)))
                              ELSE DefaultEntry

\* C2: when the file holds the save of the current maps, loading it gives maps
\* with the same keys (by their persisted names) and the same status and notes.
C2_RoundTrip ==
    (AppWritten /\ file = JsonFile(step_status, substep_status)) =>
        /\ SameContent(step_status, load_checklist_status(file).step_status)
        /\ SameContent(substep_status, load_checklist_status(file).substep_status)

\* C3: after initialization every step number and every sub-step key of the
\* model has exactly one entry standing for it in the store.
C3_OneEntryPerKey ==
    (last_op = "main_page" /\ AppWritten) =>
        /\ \A n \in ModelStepNums : Cardinality(StandingFor(step_status, Str(n))) = 1
        /\ \A k \in ModelSubKeys : Cardinality(StandingFor(substep_status, k.s)) = 1

\* C4: in every state the status of every entry of both maps is one of
\* not_started, in_progress, completed.
C4_StatusAlwaysValid == AllValid(step_status) /\ AllValid(substep_status)

\* C6: a handler whose save fails leaves the status file as it was before.
C6_FailedSaveKeepsFile ==
    [][(save_failed' /\ file.kind = "json") => file' = file]_vars

\* C7: when the save after an edit fails, the failure is reported (st.error,
\* return value False), no exception leaves save_checklist_status, and the
\* maps keep the edited value.
C7_FailedSaveReported ==
    save_failed =>
        /\ save_result = "failed"
        /\ errors_shown > 0
        /\ raised => ~(AllValid(step_status) /\ AllValid(substep_status))
        /\ (edited # "none" /\ ~raised) => edit_kept

\* a status edit on the step detail view whose saves failed: the maps hold the
\* edit and the file does not
C7_Witness ==
    /\ save_failed /\ ~raised
    /\ last_op = "step_detail" /\ edited = "status" /\ edit_kept
    /\ file.kind = "json"
    /\ file # JsonFile(step_status, substep_status)

\* exactly the keys of the model, each with the default entry
OnlyDefaults(ss, sub) ==
    /\ Keys(ss) = Range(StepKeys(steps))
    /\ Keys(sub) = ModelSubKeys
    /\ \A i \in DOMAIN ss : ss[i].v = DefaultEntry
    /\ \A i \in DOMAIN sub : sub[i].v = DefaultEntry

C9_PersistFollowsMutation ==
    (edited # "none" /\ ~raised /\ ~save_failed) =>
        file = JsonFile(step_status, substep_status)

\* the steps of the model whose entry is completed
CompletedSteps ==
    {n \in ModelStepNums : Has(step_status, IntKey(n)) /\ StepEntry(n).status = "completed"}

\* C10: the overall progress is the number of completed steps of the model
\* times 100 divided by the number of steps, truncated, and 0 without steps.
C10_ProgressCountsModelSteps ==
    ("step_status" \in session_keys /\ AppWritten) =>
        calculate_overall_progress(session_keys, step_status, steps) =
            IF Len(steps) = 0 THEN 0
            ELSE (Cardinality(CompletedSteps) * 100) \div Len(steps)

\* the names under which the table would persist its steps
ModelStepNames == {Str(n) : n \in ModelStepNums}

\* the names under which the table would persist its sub-steps
ModelSubNames == {k.s : k \in ModelSubKeys}

\* the restored items of d whose key names none of names
Stale(d, names) == {i \in DOMAIN d : d[i].k.s \notin names}

\* the member sequence ms holds a member named s with value v
HasMember(ms, s, v) == \E j \in DOMAIN ms : ms[j].k = s /\ ms[j].v = v

\* C11: after the initialization that restored the status file, every restored
\* entry whose key is not a key of the table is still in its map with the
\* stored status and notes, and the save that ends the initialization, when it
\* succeeds, writes it back.
C11_StaleEntriesRetained ==
    (last_op = "main_page" /\ did_load) =>
        /\ \A i \in Stale(from_file.step_status, ModelStepNames) :
            LET e == from_file.step_status[i]
            IN  /\ Has(step_status, e.k)
                /\ Get(step_status, e.k) = e.v
                /\ save_result = "ok" => HasMember(file.step_status, e.k.s, e.v)
        /\ \A i \in Stale(from_file.substep_status, ModelSubNames) :
            LET e == from_file.substep_status[i]
            IN  /\ Has(substep_status, e.k)
                /\ Get(substep_status, e.k) = e.v
                /\ save_result = "ok" => HasMember(file.substep_status, e.k.s, e.v)

\* an initialization over a table with steps that restored an entry of a step
\* the table does not have, kept it and wrote it back
C11_Witness ==
    /\ last_op = "main_page" /\ did_load /\ save_result = "ok"
    /\ Len(steps) > 0
    /\ Stale(from_file.step_status, ModelStepNames) # {}
    /\ Has(step_status, StrKey("9"))
    /\ HasMember(file.step_status, "9", [status |-> "completed", notes |-> ""])

\* C12: the save is the last step of the initialization: when it succeeded the
\* file is a JSON object whose two members are the dumps of the in-memory
\* step_status and substep_status, restored entries and added defaults alike.
C12_InitEndsPersisted ==
    (last_op = "main_page" /\ save_result = "ok") =>
        /\ file.kind = "json"
        /\ file.step_status = DumpMap(step_status)
        /\ file.substep_status = DumpMap(substep_status)
        /\ \A i \in DOMAIN from_file.step_status :
            did_load => \E j \in DOMAIN file.step_status :
                            file.step_status[j].k = from_file.step_status[i].k.s
        /\ \A n \in ModelStepNums :
            \E j \in DOMAIN file.step_status : file.step_status[j].k = Str(n)

\* an initialization that restored entries, added defaults for the table and
\* replaced the file found by the dump of both
C12_Witness ==
    /\ last_op = "main_page" /\ did_load /\ save_result = "ok"
    /\ from_file.step_status # <<>>
    /\ Len(step_status) > Len(from_file.step_status)
    /\ file = JsonFile(step_status, substep_status)
    /\ file # LegacyFile

\* the members of ms named s
Records(ms, s) == {j \in DOMAIN ms : ms[j].k = s}

\* the file holds exactly one record for every step and sub-step of the table
OneRecordPerKey(f) ==
    /\ f.kind = "json"
    /\ \A n \in ModelStepNums : Cardinality(Records(f.step_status, Str(n))) = 1
    /\ \A k \in ModelSubKeys : Cardinality(Records(f.substep_status, k.s)) = 1

\* C19: a second render of the step detail view in which every status
\* selectbox returns the value the entry already has (saves succeeding) leaves
\* both maps and the file as the first render left them, and the file holds
\* one record per step and sub-step, also when the session restored data the
\* application wrote earlier.
C19_SameStatusTwice ==
    [][(/\ last_op = "step_detail" /\ ~raised /\ ~save_failed
        /\ last_op' = "step_detail" /\ edited' = "none" /\ ~raised' /\ ~save_failed'
        /\ AppWritten) =>
            /\ step_status' = step_status
            /\ substep_status' = substep_status
            /\ file' = file
            /\ OneRecordPerKey(file')]_vars

\* C20: within a session no handler removes an entry: the key sets of
\* step_status and substep_status after a handler include those before it.
C20_KeysOnlyGrow ==
    [][last_op' # "new_session" =>
            /\ Keys(step_status) \subseteq Keys(step_status')
            /\ Keys(substep_status) \subseteq Keys(substep_status')]_vars

\* a status edit on a view, in a session that restored an entry of a step the
\* table does not have: the edited entry changed and every key is still there
C20_Witness ==
    /\ last_op \in {"step_detail", "step_checklist", "checklist_page"}
    /\ edited = "status" /\ edit_kept /\ ~raised
    /\ Has(step_status, StrKey("9"))
    /\ Range(StepKeys(steps)) \subseteq Keys(step_status)
    /\ \E i \in DOMAIN step_status : step_status[i].v.status = "in_progress"

\* ------------------------------------------------- properties of the table
\* process_steps has returned
Built == stage \in {"model", "days"}

\* row j of the frame is a step header: its code holds the marker followed by
\* an integer
IsHeader(j) == df[j].parsed.Level = "step"

\* row j of the frame is a sub-step row: the letter, a step number and one or
\* two dot-groups
IsSubstep(j) == df[j].parsed.Level \in {"sub1", "sub2"}

\* the step number in the code of a header or sub-step row
NumberOf(j) == df[j].parsed.StepNum[1]

\* the header rows for step n
HeaderRows(n) == {j \in DOMAIN df : IsHeader(j) /\ NumberOf(j) = n}

\* the entries of the model keyed by n
EntriesFor(n) == {i \in DOMAIN model : model[i].k = n}

\* the Step of the model has the title and both bases of header row j
StepFromRow(n, j) ==
    LET st == Get(model, n)
        h == StepInfo(df[j].row, n)
    IN  /\ st.title = h.title
        /\ st.can_cu = h.can_cu
        /\ st.can_cu_tien_do = h.can_cu_tien_do

\* C13 as stated: every header row with an integer n yields a Step keyed by n,
\* the map holds n exactly once, and its title and bases are those of the last
\* header row for n.
C13_EveryHeaderYieldsStep ==
    Built =>
        \A j \in DOMAIN df :
            IsHeader(j) =>
                /\ Cardinality(EntriesFor(NumberOf(j))) = 1
                /\ StepFromRow(NumberOf(j), Max(HeaderRows(NumberOf(j))))

\* C13: every header row whose code holds the marker followed by a positive
\* integer n yields a Step keyed by n; the map holds n exactly once however
\* often the header for n occurs, and the title and bases of step n are those
\* of the last header row for n.  (A header row with the number 0 yields no
\* Step.)
C13_PositiveHeaderYieldsStep ==
    Built =>
        /\ \A j \in DOMAIN df :
            (IsHeader(j) /\ NumberOf(j) >= 1) =>
                /\ Cardinality(EntriesFor(NumberOf(j))) = 1
                /\ StepFromRow(NumberOf(j), Max(HeaderRows(NumberOf(j))))
        /\ \A i \in DOMAIN model : model[i].k >= 1 /\ HeaderRows(model[i].k) # {}

\* a table with two header rows for step 1 that differ in title and bases:
\* the model holds step 1 once, with the synthesized title of the second
C13_Witness ==
    /\ Built
    /\ Cardinality(HeaderRows(1)) = 2
    /\ df[Min(HeaderRows(1))].row = HeaderOne
    /\ df[Max(HeaderRows(1))].row = HeaderOneBare
    /\ Cardinality(EntriesFor(1)) = 1
    /\ Get(model, 1).title = <<"B", "Ư", "Ớ", "C", " ", "1">>
    /\ Get(model, 1).can_cu = <<>>

\* the header rows before row j that open a step
OpeningBefore(j) == {i \in 1..(j - 1) : IsHeader(i) /\ NumberOf(i) >= 1}

\* the step open when row j is consumed: that of the most recent header
\* before it
OpenAt(j) == IF OpeningBefore(j) = {} THEN None ELSE df[Max(OpeningBefore(j))].parsed.StepNum

\* the sub-step rows whose step number is n and equals the open step
MatchingRows(n) == {j \in DOMAIN df : IsSubstep(j) /\ NumberOf(j) = n /\ OpenAt(j) = Some(n)}

RECURSIVE SubstepsOf(_, _)
\* the sub-steps made of the rows of Q from row j on, in row order
SubstepsOf(Q, j) ==
    IF j > Len(df) THEN <<>>
    ELSE (IF j \in Q THEN <<SubstepInfo(df[j].row, df[j].parsed.Level)>> ELSE <<>>)
             \o SubstepsOf(Q, j + 1)

\* the sub-steps of depth 1 or 2 in the list of step n of the model
DeepSubsteps(n) == SelectSeq(Get(model, n).substeps, LAMBDA x : x.level \in {"sub1", "sub2"})

\* C14 as stated: the list of every step holds, in row order, every sub-step
\* row whose step number equals the step open at that row, and no other
\* sub-step row.
C14_EveryMatchingRowKept ==
    Built =>
        /\ \A i \in DOMAIN model :
            DeepSubsteps(model[i].k) = SubstepsOf(MatchingRows(model[i].k), 1)
        /\ \A j \in DOMAIN df :
            (IsSubstep(j) /\ OpenAt(j) = Some(NumberOf(j))) => Has(model, NumberOf(j))

\* C14: the list of every step holds, in row order, the sub-step rows that
\* follow the last header row for that step and whose step number equals the
\* step open at that row (the most recent header row with a positive number);
\* a sub-step row before any header, or whose number differs from the open
\* step, creates no sub-step.  (Sub-step rows between an earlier and a later
\* header row of the same step are not in the final model.)
C14_MatchingRowsAfterLastHeader ==
    Built =>
        /\ \A i \in DOMAIN model :
            LET n == model[i].k
            IN  DeepSubsteps(n) =
                    SubstepsOf({j \in MatchingRows(n) : j > Max(HeaderRows(n))}, 1)
        /\ \A j \in DOMAIN df :
            (IsSubstep(j) /\ OpenAt(j) = Some(NumberOf(j))) => Has(model, NumberOf(j))

\* a table whose first sub-step row comes before any header and is dropped,
\* and whose later sub-step row is in the list of the step then open
C14_Witness ==
    /\ Built
    /\ \E j \in DOMAIN df : IsSubstep(j) /\ OpenAt(j) = None /\ NumberOf(j) = 1
    /\ \E j \in DOMAIN df : j \in MatchingRows(1) /\ j > Max(HeaderRows(1))
    /\ Has(model, 1)
    /\ Len(Get(model, 1).substeps) = 1

\* C15: every sub-step of the model has level sub1 or sub2; a row whose code
\* is the letter and a step number without a dot-group adds no sub-step.
C15_DepthOneOrTwo ==
    Built =>
        \A i \in DOMAIN model :
            \A j \in DOMAIN model[i].v.substeps :
                model[i].v.substeps[j].level \in {"sub1", "sub2"}

\* the title cell of row j is absent, empty or only whitespace
BlankTitle(j) == df[j].row.NoiDung.na \/ Strip(df[j].row.NoiDung.s) = <<>>

\* C16: the Step made from a header row with a blank title cell has the
\* synthesized title, the marker word, a space and n; no Step has an empty
\* title.
C16_BlankTitleSynthesized ==
    Built =>
        \A i \in DOMAIN model :
            LET n == model[i].k
            IN  /\ model[i].v.title # <<>>
                /\ BlankTitle(Max(HeaderRows(n))) =>
                       model[i].v.title = MARKER \o <<" ">> \o Chars(n)

\* row j is neither a header nor a sub-step row
Unrecognized(j) == ~IsHeader(j) /\ ~IsSubstep(j)

\* the frame without its unrecognized rows
RECURSIVE Recognized(_)
Recognized(j) ==
    IF j > Len(df) THEN <<>>
    ELSE (IF Unrecognized(j) THEN <<>> ELSE <<df[j]>>) \o Recognized(j + 1)

\* C17: an unrecognized row leaves the step map and the open step as they
\* were, and the model equals the model built from the recognized rows alone.
C17_UnrecognizedRowsSkipped ==
    Built =>
        /\ \A j \in DOMAIN df :
            Unrecognized(j) =>
                Loop(LoopStart, SubSeq(df, 1, j)) = Loop(LoopStart, SubSeq(df, 1, j - 1))
        /\ model = process_steps(Recognized(1))

\* the runs of digits of s: the positions at which an integer starts
IntegerStarts(s) == {a \in 1..Len(s) : IsDigit(s[a]) /\ (a = 1 \/ ~IsDigit(s[a - 1]))}

\* the integer that starts at a is followed, after optional whitespace, by the
\* day unit
FollowedByUnit(s, a) == MatchAt(s, SpaceRunEnd(s, DigitRunEnd(s, a) + 1) + 1, DAY_UNIT)

\* the first integer of the text that the day unit follows, 0 without one
FirstDayCount(text) ==
    LET s == Lower(text)
        found == {a \in IntegerStarts(s) : FollowedByUnit(s, a)}
    IN  IF found = {} THEN 0 ELSE ToInt(SubSeq(s, Min(found), DigitRunEnd(s, Min(found))))

RECURSIVE Sum(_)
Sum(ns) == IF ns = <<>> THEN 0 ELSE Head(ns) + Sum(Tail(ns))

\* the day counts of the sub-steps of a step
DayCounts(st) == [j \in DOMAIN st.substeps |-> FirstDayCount(st.substeps[j].thoi_gian)]

\* C18: calculate_total_days gives every step of the model the sum of the day
\* counts of its sub-steps, each the first integer of the duration text that
\* the day unit follows and 0 without one; no total is negative, and the
\* counts 5, 0, 10 give 15.
C18_TotalIsSumOfFirstDayCounts ==
    stage = "days" =>
        /\ Len(step_days) = Len(model)
        /\ \A i \in DOMAIN model :
            /\ step_days[i].k = model[i].k
            /\ step_days[i].v = Sum(DayCounts(model[i].v))
            /\ step_days[i].v >= 0
            /\ \A j \in DOMAIN model[i].v.substeps :
                model[i].v.substeps[j].thoi_gian = <<>> =>
                    extract_days(model[i].v.substeps[j].thoi_gian) = 0
            /\ DayCounts(model[i].v) = <<5, 0, 10>> => step_days[i].v = 15

\* a step whose sub-steps count 5, 0 and 10 days, the 0 from an empty text
C18_Witness ==
    /\ stage = "days"
    /\ DayCounts(model[1].v) = <<5, 0, 10>>
    /\ model[1].v.substeps[2].thoi_gian = <<>>
    /\ step_days[1].v = 15

\* ------------------------------------------- more properties of the store
\* C23: in every state the overall progress is between 0 and 100.
C23_ProgressWithinBounds ==
    "step_status" \in session_keys =>
        calculate_overall_progress(session_keys, step_status, steps) \in 0..100

\* C24: once checklist_loaded is set no handler of the session (a step that
\* is neither a new session nor a change of the disk) reads the status file
\* again, and a render that only runs the initialization leaves both maps as
\* they were, whatever the file holds.
C24_FileReadOncePerSession ==
    [][("checklist_loaded" \in session_keys /\ last_op' # "new_session" /\ disk' = disk) =>
            /\ ~did_load'
            /\ from_file' = from_file
            /\ last_op' = "main_page" =>
                   (step_status' = step_status /\ substep_status' = substep_status)]_vars

\* a later render of a session whose edit never reached the file: the maps
\* hold the edit, the file does not, and the file was not read again
C24_Witness ==
    /\ "checklist_loaded" \in session_keys
    /\ last_op = "main_page" /\ ~did_load
    /\ \E i \in DOMAIN step_status : step_status[i].v.status # "not_started"
    /\ file # JsonFile(step_status, substep_status)
    /\ load_checklist_status(file).step_status # step_status

\* the session, the file and the disk of the state, as a handler meets them
Here == World

\* C25: in every state, a second call of init_checklist_status right after a
\* first gives the same step_status, substep_status and file as the first.
C25_InitIdempotent ==
    LET once == init_checklist_status(Here, steps)
        twice == init_checklist_status(once, steps)
    IN  /\ twice.step_status = once.step_status
        /\ twice.substep_status = once.substep_status
        /\ twice.file = once.file
        /\ twice.keys = once.keys

\* the second initialization of a session that restored entries: the maps and
\* the file are those the first left
C25_Witness ==
    /\ "checklist_loaded" \in session_keys
    /\ last_op = "main_page" /\ ~did_load /\ save_result = "ok"
    /\ from_file.step_status # <<>>
    /\ Len(step_status) > Len(from_file.step_status)
    /\ file = JsonFile(step_status, substep_status)

\* ------------------------------------------- more properties of the table
\* the locals of process_steps after the first j rows of the frame
After(j) == Loop(LoopStart, SubSeq(df, 1, j))

\* row j takes the header branch of process_steps
ConsumedAsHeader(j) == IsHeader(j) /\ NumberOf(j) >= 1

\* the rows after the last header row for n that the loop files under step n
FiledAfterLastHeader(n) ==
    {j \in DOMAIN df : /\ j > Max(HeaderRows(n))
                       /\ df[j].parsed.Level \in {"sub0", "sub1", "sub2"}
                       /\ NumberOf(j) = n
                       /\ OpenAt(j) = Some(n)}

\* C26: right after process_steps consumed a header row for step n the
\* sub-step list of step n is empty; the final list of step n is made of the
\* rows that follow the last header row for n and of no row before it.
C26_HeaderResetsSubsteps ==
    Built =>
        /\ \A j \in DOMAIN df :
            ConsumedAsHeader(j) =>
                /\ Has(After(j).steps, NumberOf(j))
                /\ Get(After(j).steps, NumberOf(j)).substeps = <<>>
        /\ \A i \in DOMAIN model :
            model[i].v.substeps = SubstepsOf(FiledAfterLastHeader(model[i].k), 1)

\* a table in which a sub-step row of step 1 stands between two header rows
\* of step 1: it was in the list after its own row and is not in the model
C26_Witness ==
    /\ Built
    /\ Cardinality(HeaderRows(1)) = 2
    /\ \E j \in MatchingRows(1) :
        /\ j < Max(HeaderRows(1))
        /\ Len(Get(After(j).steps, 1).substeps) = 1
    /\ Get(model, 1).substeps = <<>>

\* C21: when the source table cannot be read, opened or decoded, the run of
\* main calls load_data once, load_data and main each report the error, and the
\* run ends with the session, the status maps, the status file and the table
\* model as they were: no model is built, the status store is not initialised
\* and the status file is not written.
C21_LoadFailureStopsMain ==
    [][(source # "ok" /\ last_op' = "load_failed") =>
            /\ load_calls' = 1
            /\ load_errors' = 2
            /\ session_keys' = session_keys
            /\ step_status' = step_status
            /\ substep_status' = substep_status
            /\ file' = file
            /\ ~did_load'
            /\ save_result' = "none"
            /\ model' = <<>>
            /\ stage' = "idle"]_<<vars, lvars>>

\* a run of main has met a missing table: no status file, an empty session
C21_Witness ==
    /\ source = "missing"
    /\ last_op = "load_failed"
    /\ load_calls = 1
    /\ load_errors = 2
    /\ file = NoFile
    /\ session_keys = {}

\* a fixed bound on the context: that of two documents cut at DOC_LIMIT
ContextBound == 2 * DOC_LIMIT

\* C22: the context sent with a question is bounded in total size: its length
\* never passes the fixed bound ContextBound, whatever the number of steps and
\* the number and size of the uploaded documents.
C22_ContextBounded ==
    context_sent # None => context_sent[1] <= ContextBound

\* the page value the run read differs from last_page_selection as it was
PageChanged == nav.last_page_selection # None /\ nav'.navigation # nav.last_page_selection

\* C27: in every run of main, a page value that differs from
\* last_page_selection becomes last_page_selection, selected_step is removed
\* and the main content is the chosen page; with the page value unchanged and
\* selected_step set, the main content is the detail of selected_step, which
\* stays as it was unless a step button was pressed; and selected_step takes a
\* new value only as the step of the button pressed in that run.
C27_NavigationRule ==
    [][/\ PageChanged =>
            /\ nav'.last_page_selection = nav'.navigation
            /\ nav'.selected_step = None
            /\ rendered' = [view |-> nav'.navigation[1], step |-> None]
       /\ (~PageChanged /\ nav.selected_step # None) =>
            /\ rendered' = [view |-> "detail", step |-> nav'.selected_step]
            /\ nav_op'.kind # "click" => nav'.selected_step = nav.selected_step
       /\ (nav'.selected_step # None /\ nav'.selected_step # nav.selected_step) =>
            nav_op' = StepInput(nav'.selected_step[1])]_nvars

\* the radio was moved to the documents page while the detail of a step was
\* shown: selected_step was removed and the documents page is shown
C27_Witness ==
    /\ nav_op = PageInput("documents")
    /\ nav.cleared
    /\ nav.selected_step = None
    /\ nav.last_page_selection = Some("documents")
    /\ rendered = [view |-> "documents", step |-> None]

\* C28: whenever a step detail is shown, the overview page is rendered again
\* later, given that the user keeps using the sidebar radio; this with the
\* features module available and without it.
C28_DetailLeadsToOverview ==
    (rendered.view = "detail") ~> (rendered.view = "overview")

\* the entries of a metadata list whose file name is not f
OtherEntries(entries, f) ==
    LET Other(e) == e.filename # f IN SelectSeq(entries, Other)

\* C29: a delete_file_info(f) that returns True leaves a metadata list that is
\* the list before it without the entries named f, the others in their order;
\* when no entry is named f it returns False and metadata.json is as before.
C29_DeleteRemovesAllOfName ==
    [][file_op' = "delete" =>
        /\ file_result' = "True" =>
            /\ uploads'.metadata.exists
            /\ uploads'.metadata.entries = OtherEntries(uploads.metadata.entries, file_arg')
            /\ \A i \in DOMAIN uploads'.metadata.entries :
                    uploads'.metadata.entries[i].filename # file_arg'
        /\ (\A i \in DOMAIN load_file_metadata(uploads) :
                    load_file_metadata(uploads)[i].filename # file_arg') =>
            /\ file_result' = "False"
            /\ uploads'.metadata = uploads.metadata]_fvars

\* a file uploaded in two sessions and a second file: the deletion of the
\* first returned True and left the one entry of the second
C29_Witness ==
    /\ file_op = "delete"
    /\ file_result = "True"
    /\ next_id = 3
    /\ Len(uploads.metadata.entries) = 1
    /\ uploads.metadata.entries[1].filename # file_arg
    /\ uploads.metadata.entries[1].id = 2

\* the file names still listed in the metadata of the directory fs
Listed(fs) == {load_file_metadata(fs)[i].filename : i \in DOMAIN load_file_metadata(fs)}

\* C30: a delete_file_info(f) leaves, for every other file name g still listed,
\* the stored file of g and the saved extracted text of g as they were.
C30_DeleteTouchesOnlyThatFile ==
    [][file_op' = "delete" =>
        \A g \in Listed(uploads') \ {file_arg'} :
            /\ uploads'.stored[g] = uploads.stored[g]
            /\ uploads'.stored[TextPath(g)] = uploads.stored[TextPath(g)]]_fvars

====
